---- MODULE Spec2Model ----
(***************************************************************************)
(* The token lifecycle of the TrailBase python client                      *)
(* (client/trailbase-py/trailbase/__init__.py): TokenState.build and       *)
(* buildHeaders, and Client.login / logout / fetch with the lazy refresh   *)
(* of an expiring access token.  Callers are the threads that share one    *)
(* Client; every read and write of Client._tokenState is a separate step.  *)
(***************************************************************************)
EXTENDS Integers, Sequences, FiniteSets, TLC

VARIABLES
    tokenState,   \* Client._tokenState
    installedBy,  \* history: the operation that wrote tokenState last
    now,          \* int(time())
    pc,           \* per caller: position inside the running operation
    op,           \* per caller: the operation that is running
    frame,        \* per caller: arguments and locals of the running Client.fetch
    seen,         \* history, per caller: what line 311-312 read and decided
    log,          \* history, per caller: requests and responses of the operation
    result        \* per caller: how the last operation ended

vars == <<tokenState, installedBy, now, pc, op, frame, seen, log, result>>

--------------------------------------------------------------------------
(* Bounds and program constants *)

MaxNow == 3            \* the clock runs from 0 to MaxNow
RefreshMargin == 60    \* _shouldRefresh: state[1].exp - 60 < now

Callers == {"c1", "c2"}   \* the threads that may share the Client
Main == "c1"               \* the caller of the sequential specification

--------------------------------------------------------------------------
(* Python values *)

None == <<>>           \* None where a Tokens, a tuple or a dict is expected
NoneStr == "None"      \* None where a str is expected

Return(v) == [ok |-> TRUE, val |-> v, err |-> "none"]
Raise(e) == [ok |-> FALSE, val |-> None, err |-> e]

\* The access tokens the server may hand out.  A JWT carries its payload; the
\* table is what jwt.decode(..., verify_signature=False) reads out of it.
JwtTable ==
    [T0 |-> [sub |-> "u1", iat |-> 0, exp |-> 1, email |-> "a@b.com", csrf_token |-> "C0"],
     T1 |-> [sub |-> "u1", iat |-> 0, exp |-> RefreshMargin + 2, email |-> "a@b.com",
             csrf_token |-> "C1"],
     T2 |-> [sub |-> "u1", iat |-> 1, exp |-> RefreshMargin + 9, email |-> "a@b.com",
             csrf_token |-> "C2"],
     Tpartial |-> [sub |-> "u1", iat |-> 0, exp |-> RefreshMargin + 9]]

OpaqueTokens == {"Topaque"}
AccessTokens == DOMAIN JwtTable \cup OpaqueTokens

\* jwt.decode with verify_signature False: the payload dict of a well-formed
\* JWT, DecodeError for anything else.  It never returns None.
jwt_decode(auth) ==
    IF auth \in DOMAIN JwtTable THEN Return(JwtTable[auth]) ELSE Raise("DecodeError")

Tokens(auth, refresh, csrf) == [auth |-> auth, refresh |-> refresh, csrf |-> csrf]

JwtToken(sub, iat, exp, email, csrfToken) ==
    [sub |-> sub, iat |-> iat, exp |-> exp, email |-> email, csrfToken |-> csrfToken]

JwtKeys == <<"sub", "iat", "exp", "email", "csrf_token">>

JwtToken_fromJson(json) ==
    IF \E i \in 1..Len(JwtKeys) : JwtKeys[i] \notin DOMAIN json
    THEN Raise("KeyError")
    ELSE Return(JwtToken(json.sub, json.iat, json.exp, json.email, json.csrf_token))

RecordId(id) == [id |-> id]

RecordId_fromJson(json) ==
    IF "id" \notin DOMAIN json THEN Raise("KeyError") ELSE Return(RecordId(json.id))

User(id, email) == [id |-> id, email |-> email]

User_fromJson(json) ==
    IF "sub" \notin DOMAIN json \/ "email" \notin DOMAIN json
    THEN Raise("KeyError")
    ELSE Return(User(json.sub, json.email))

--------------------------------------------------------------------------
(* TokenState *)

TokenState(state, headers) == [state |-> state, headers |-> headers]

\* Mutant: the refresh token is written into the headers without the None test.
buildHeaders_unguarded(tokens) ==
    LET base == "Content-Type" :> "application/json" IN
    IF tokens # None
    THEN LET withAuth == ("Authorization" :> ("Bearer " \o tokens.auth)) @@ base
             withRefresh == ("Refresh-Token" :> tokens.refresh) @@ withAuth
         IN  IF tokens.csrf # NoneStr
             THEN ("CSRF-Token" :> tokens.csrf) @@ withRefresh
             ELSE withRefresh
    ELSE base

buildHeaders(tokens) ==
    LET base == "Content-Type" :> "application/json" IN
    IF tokens # None
    THEN LET withAuth == ("Authorization" :> ("Bearer " \o tokens.auth)) @@ base
             withRefresh == IF tokens.refresh # NoneStr
                            THEN ("Refresh-Token" :> tokens.refresh) @@ withAuth
                            ELSE withAuth
         IN  IF tokens.csrf # NoneStr
             THEN ("CSRF-Token" :> tokens.csrf) @@ withRefresh
             ELSE withRefresh
    ELSE base

build(tokens) ==
    LET decoded == IF tokens # None THEN jwt_decode(tokens.auth) ELSE Return(None) IN
    IF ~decoded.ok
    THEN Raise(decoded.err)
    ELSE IF decoded.val = None \/ tokens = None
         THEN Return(TokenState(None, buildHeaders(tokens)))
         ELSE LET claims == JwtToken_fromJson(decoded.val) IN
              IF ~claims.ok
              THEN Raise(claims.err)
              ELSE Return(TokenState(<<tokens, claims.val>>, buildHeaders(tokens)))

--------------------------------------------------------------------------
(* ThinClient and the pure parts of Client *)

Site == "http://site"
authApi == "api/auth/v1"
recordApi == "api/records/v1"

\* ThinClient.fetch hands this to httpx: the request that goes on the wire.
ThinClient_fetch(path, ts, method, data, queryParams) ==
    [method |-> IF method # NoneStr THEN method ELSE "GET",
     url |-> Site \o "/" \o path,
     json |-> data,
     headers |-> ts.headers,
     params |-> queryParams]

tokens(ts) ==
    LET state == ts.state IN IF state # None THEN state[1] ELSE None

user(ts) ==
    LET toks == tokens(ts) IN
    IF toks # None
    THEN LET decoded == jwt_decode(toks.auth) IN
         IF decoded.ok THEN User_fromJson(decoded.val) ELSE Raise(decoded.err)
    ELSE Return(None)

\* Mutant: an expired token is refused instead of logged.
updateTokens_strict(toks, t) ==
    LET built == build(toks) IN
    IF ~built.ok
    THEN Raise(built.err)
    ELSE LET state == built.val.state IN
         IF state # None /\ state[2].exp < t
         THEN Raise("TokenExpired")
         ELSE Return(built.val)

\* Mutant: clearing the tokens keeps the headers that were current.
updateTokens_keepHeaders(toks, t) ==
    LET built == build(toks) IN
    IF ~built.ok
    THEN Raise(built.err)
    ELSE IF toks = None
         THEN Return(TokenState(None, tokenState.headers))
         ELSE Return(built.val)

\* _updateTokens: the state to install; an expired token is only logged.
updateTokens(toks, t) ==
    LET built == build(toks) IN
    IF ~built.ok
    THEN Raise(built.err)
    ELSE LET state == built.val.state
             warned == state # None /\ state[2].exp < t
         IN  Return(built.val)

\* Mutant: an expiring state without a refresh token still triggers a refresh.
shouldRefresh_fallback(ts, t) ==
    LET state == ts.state IN
    IF state # None /\ state[2].exp - RefreshMargin < t
    THEN IF state[1].refresh # NoneStr THEN state[1].refresh ELSE state[1].auth
    ELSE NoneStr

\* Mutant: the margin test includes the boundary.
shouldRefresh_le(ts, t) ==
    LET state == ts.state IN
    IF state # None /\ state[2].exp - RefreshMargin <= t
    THEN state[1].refresh
    ELSE NoneStr

shouldRefresh(ts, t) ==
    LET state == ts.state IN
    IF state # None /\ state[2].exp - RefreshMargin < t
    THEN state[1].refresh
    ELSE NoneStr

\* Mutant: the refresh token is taken from the response when it carries one.
refreshTokensImpl_rotate(response, refreshToken) ==
    LET json == response.body IN
    IF json = None
    THEN Raise("JSONDecodeError")
    ELSE IF "auth_token" \notin DOMAIN json \/ "csrf_token" \notin DOMAIN json
         THEN Raise("KeyError")
         ELSE build(Tokens(json.auth_token,
                           IF "refresh_token" \in DOMAIN json
                           THEN json.refresh_token ELSE refreshToken,
                           json.csrf_token))

\* _refreshTokensImpl after the response arrived: response.json(), then build.
refreshTokensImpl(response, refreshToken) ==
    LET json == response.body IN
    IF json = None
    THEN Raise("JSONDecodeError")
    ELSE IF "auth_token" \notin DOMAIN json \/ "csrf_token" \notin DOMAIN json
         THEN Raise("KeyError")
         ELSE build(Tokens(json.auth_token, refreshToken, json.csrf_token))

\* Mutant: the refresh and csrf tokens of the login response change places.
loginTokens_swapped(response) ==
    LET json == response.body IN
    IF json = None
    THEN Raise("JSONDecodeError")
    ELSE IF \E k \in {"auth_token", "refresh_token", "csrf_token"} : k \notin DOMAIN json
         THEN Raise("KeyError")
         ELSE Return(Tokens(json.auth_token, json.csrf_token, json.refresh_token))

\* Client.login after fetch returned: response.json(), Tokens(...), _updateTokens.
loginTokens(response) ==
    LET json == response.body IN
    IF json = None
    THEN Raise("JSONDecodeError")
    ELSE IF \E k \in {"auth_token", "refresh_token", "csrf_token"} : k \notin DOMAIN json
         THEN Raise("KeyError")
         ELSE Return(Tokens(json.auth_token, json.refresh_token, json.csrf_token))

--------------------------------------------------------------------------
(* RecordApi: the pure parts.  A filter is the sequence of its characters. *)

Some(x) == <<x>>       \* an optional argument that is given; None when it is not

RECURSIVE Str(_), indexOf(_, _, _), join(_, _), filterParams(_, _)

\* The str of a sequence of characters.
Str(chars) == IF chars = <<>> THEN "" ELSE Head(chars) \o Str(Tail(chars))

\* The index of the first sep in chars at or after i, 0 when there is none.
indexOf(chars, sep, i) ==
    IF i > Len(chars) THEN 0
    ELSE IF chars[i] = sep THEN i ELSE indexOf(chars, sep, i + 1)

\* filter.split("=", 1): one part without a "=", else the parts around the first.
split1(chars) ==
    LET i == indexOf(chars, "=", 1) IN
    IF i = 0
    THEN <<Str(chars)>>
    ELSE <<Str(SubSeq(chars, 1, i - 1)), Str(SubSeq(chars, i + 1, Len(chars)))>>

\* sep.join(strs)
join(sep, strs) ==
    IF strs = <<>> THEN ""
    ELSE IF Len(strs) = 1 THEN strs[1]
    ELSE strs[1] \o sep \o join(sep, Tail(strs))

\* str(limit) of a small natural number
Digits == <<"0", "1", "2", "3", "4", "5", "6", "7", "8", "9">>
str(n) == Digits[n + 1]

\* Mutant: a filter without "=" is skipped instead of failing the unpacking.
filterParams_lenient(filters, params) ==
    IF filters = <<>>
    THEN Return(params)
    ELSE LET parts == split1(Head(filters)) IN
         IF Len(parts) # 2
         THEN filterParams(Tail(filters), params)
         ELSE filterParams(Tail(filters), (parts[1] :> parts[2]) @@ params)

\* RecordApi.list, lines 350-355: (nameOp, value) = filter.split("=", 1) raises
\* ValueError when the split has one part; params[nameOp] = value otherwise.
filterParams(filters, params) ==
    IF filters = <<>>
    THEN Return(params)
    ELSE LET parts == split1(Head(filters)) IN
         IF Len(parts) # 2
         THEN Raise("ValueError")
         ELSE filterParams(Tail(filters), (parts[1] :> parts[2]) @@ params)

\* RecordApi.list, lines 338-355: the query parameters, or the exception.
\* The empty dict is the function with no key, which is None here.
listParams(order, filters, cursor, limit) ==
    LET p0 == None
        p1 == IF cursor # NoneStr THEN ("cursor" :> cursor) @@ p0 ELSE p0
        p2 == IF limit # None THEN ("limit" :> str(limit[1])) @@ p1 ELSE p1
        p3 == IF order # None THEN ("order" :> join(",", order[1])) @@ p2 ELSE p2
    IN  IF filters # None THEN filterParams(filters[1], p3) ELSE Return(p3)

\* Mutant: only 200 is accepted.
requestFailed_exact(response) == response.status # 200

\* create, update, delete: if response.status_code > 200: raise
requestFailed(response) == response.status > 200

\* RecordApi.create, lines 370-373
created(response) ==
    IF requestFailed(response)
    THEN Raise("Exception")
    ELSE IF response.body = None
         THEN Raise("JSONDecodeError")
         ELSE RecordId_fromJson(response.body)

\* RecordApi.update and delete after fetch returned
changed(response) ==
    IF requestFailed(response) THEN Raise("Exception") ELSE Return(None)

\* RecordApi.list and read after fetch returned: response.json()
parsed(response) ==
    IF response.body = None THEN Raise("JSONDecodeError") ELSE Return(response.body)

--------------------------------------------------------------------------
(* The server and the network, as far as the client can tell *)

Response(status, body) == [status |-> status, body |-> body]

TransportError == Raise("TransportError")

InitTokens ==
    {Tokens(a, r, c) : a \in AccessTokens, r \in {"R1", NoneStr}, c \in {"C1", NoneStr}}

LoginReplies ==
    {Return(Response(200, [auth_token |-> a, refresh_token |-> "R1", csrf_token |-> "C1"])) :
        a \in AccessTokens}
    \cup {Return(Response(200, [auth_token |-> "T1", refresh_token |-> "R1"])),
          Return(Response(401, None)),
          TransportError}

RefreshReplies ==
    {Return(Response(200, [auth_token |-> a, csrf_token |-> "C2"])) : a \in AccessTokens}
    \cup {Return(Response(200, [auth_token |-> "T2", refresh_token |-> "R2",
                                csrf_token |-> "C2"])),
          Return(Response(200, [csrf_token |-> "C2"])),
          Return(Response(200, [auth_token |-> "T2"])),
          Return(Response(401, None)),
          TransportError}

PlainReplies == {Return(Response(200, None)), TransportError}

StatusCodes == {199, 200, 201}

RecordReplies ==
    {Return(Response(st, body)) : st \in StatusCodes, body \in {[id |-> "r1"], None}}
    \cup {TransportError}

RecordOps == {"list", "read", "create", "update", "delete"}

Replies(o) ==
    IF o = "login" THEN LoginReplies
    ELSE IF o \in RecordOps THEN RecordReplies
    ELSE PlainReplies

\* The arguments RecordApi.list is called with.
ListCalls ==
    {[order |-> None, filters |-> None, cursor |-> NoneStr, limit |-> None],
     [order |-> Some(<<"x", "y">>), filters |-> Some(<<<<"a", "=", "1">>>>),
      cursor |-> "cur", limit |-> Some(5)],
     [order |-> None, filters |-> Some(<<<<"c", "=", "=">>>>), cursor |-> NoneStr,
      limit |-> None],
     [order |-> None, filters |-> Some(<<<<"b">>>>), cursor |-> NoneStr, limit |-> None],
     [order |-> None, filters |-> Some(<<<<"a", "=", "1">>, <<"b">>>>), cursor |-> NoneStr,
      limit |-> None],
     [order |-> None, filters |-> Some(<<<<"b">>, <<"a", "=", "1">>>>), cursor |-> "cur",
      limit |-> None]}

--------------------------------------------------------------------------
(* State *)

NoFrame ==
    [path |-> "", method |-> NoneStr, data |-> None, queryParams |-> None,
     tokenState |-> None, refreshToken |-> NoneStr]

NotSeen == [tokenState |-> None, now |-> 0, installedBy |-> "nobody"]

NoResult == [op |-> "none", ok |-> TRUE, val |-> None, err |-> "none", at |-> 0]

\* Client(site, toks) for some toks of the set, or Client(site, None).
Constructed(tokenSet) ==
    /\ \E toks \in tokenSet \cup {None} :
          /\ build(toks).ok
          /\ tokenState = build(toks).val
    /\ installedBy = "construct"
    /\ now = 0
    /\ pc = [p \in Callers |-> "idle"]
    /\ op = [p \in Callers |-> "none"]
    /\ frame = [p \in Callers |-> NoFrame]
    /\ seen = [p \in Callers |-> NotSeen]
    /\ log = [p \in Callers |-> <<>>]
    /\ result = [p \in Callers |-> NoResult]

Init == Constructed(InitTokens)

\* A request went out; cell is what _tokenState held at that moment.
Sent(req) == [ev |-> "request", req |-> req, cell |-> tokenState]
Got(url, response) == [ev |-> "response", url |-> url, response |-> response]
Failed(url, err) == [ev |-> "error", url |-> url, err |-> err]

Tick ==
    /\ now < MaxNow
    /\ now' = now + 1
    /\ UNCHANGED <<tokenState, installedBy, pc, op, frame, seen, log, result>>

\* A caller enters Client.fetch with these arguments.
Call(p, o, path, method, data, queryParams) ==
    /\ pc[p] = "idle"
    /\ pc' = [pc EXCEPT ![p] = "fetch"]
    /\ op' = [op EXCEPT ![p] = o]
    /\ frame' = [frame EXCEPT ![p] =
                    [NoFrame EXCEPT !.path = path, !.method = method, !.data = data,
                                    !.queryParams = queryParams]]
    /\ seen' = [seen EXCEPT ![p] = NotSeen]
    /\ log' = [log EXCEPT ![p] = <<>>]
    /\ UNCHANGED <<tokenState, installedBy, now, result>>

Enter(p, o, path, method, data) == Call(p, o, path, method, data, None)

\* An operation raises before it reaches Client.fetch.
RaisedEarly(p, o, err) ==
    /\ pc[p] = "idle"
    /\ op' = [op EXCEPT ![p] = o]
    /\ seen' = [seen EXCEPT ![p] = NotSeen]
    /\ log' = [log EXCEPT ![p] = <<>>]
    /\ result' = [result EXCEPT ![p] =
                     [op |-> o, ok |-> FALSE, val |-> None, err |-> err, at |-> now]]
    /\ UNCHANGED <<tokenState, installedBy, now, pc, frame>>

Record == [title |-> "x"]

list(p) ==
    \E args \in ListCalls :
        LET params == listParams(args.order, args.filters, args.cursor, args.limit) IN
        IF params.ok
        THEN Call(p, "list", recordApi \o "/tbl", "GET", None, params.val)
        ELSE RaisedEarly(p, "list", params.err)

read(p) == Enter(p, "read", recordApi \o "/tbl/r1", "GET", None)

create(p) == Enter(p, "create", recordApi \o "/tbl", "POST", Record)

update(p) == Enter(p, "update", recordApi \o "/tbl/r1", "PATCH", Record)

delete(p) == Enter(p, "delete", recordApi \o "/tbl/r1", "DELETE", None)

CallFetch(p) ==
    Enter(p, "fetch", recordApi \o "/tbl/1", "GET", None)

login(p) ==
    Enter(p, "login", authApi \o "/login", "POST",
          [email |-> "a@b.com", password |-> "pw"])

\* Mutant: without a refresh token logout POSTs too, with no body.
logout_post(p) ==
    LET state == tokenState.state
        refreshToken == IF state # None THEN state[1].refresh ELSE NoneStr
    IN  IF refreshToken # NoneStr
        THEN Enter(p, "logout", authApi \o "/logout", "POST",
                   [refresh_token |-> refreshToken])
        ELSE Enter(p, "logout", authApi \o "/logout", "POST", None)

logout(p) ==
    LET state == tokenState.state
        refreshToken == IF state # None THEN state[1].refresh ELSE NoneStr
    IN  IF refreshToken # NoneStr
        THEN Enter(p, "logout", authApi \o "/logout", "POST",
                   [refresh_token |-> refreshToken])
        ELSE Enter(p, "logout", authApi \o "/logout", "GET", None)

\* The operation of caller p ends: normally with value v, or raising err.
Finish(p, ok, v, err) ==
    /\ pc' = [pc EXCEPT ![p] = "idle"]
    /\ frame' = [frame EXCEPT ![p] = NoFrame]
    /\ result' = [result EXCEPT ![p] = [op |-> op[p], ok |-> ok, val |-> v, err |-> err, at |-> now]]
    /\ UNCHANGED <<now, op, seen>>

Install(ts, by) ==
    /\ tokenState' = ts
    /\ installedBy' = by

\* Mutant: logout lets the exception through and keeps the tokens.
fetchRaised_propagate(p, err) ==
    /\ Finish(p, FALSE, None, err)
    /\ UNCHANGED <<tokenState, installedBy>>

\* An exception leaves Client.fetch.  logout swallows it and clears the
\* tokens; every other operation lets it through to the caller.
fetchRaised(p, err) ==
    IF op[p] = "logout"
    THEN /\ Install(updateTokens(None, now).val, "logout")
         /\ Finish(p, TRUE, None, "none")
    ELSE /\ Finish(p, FALSE, None, err)
         /\ UNCHANGED <<tokenState, installedBy>>

\* Mutant: a login whose pair does not build installs the pair's headers.
fetchReturned_partial(p, response) ==
    CASE op[p] = "login" ->
            LET toks == loginTokens(response)
                upd == IF toks.ok THEN updateTokens(toks.val, now) ELSE Raise(toks.err)
            IN  IF upd.ok
                THEN /\ Install(upd.val, "login")
                     /\ Finish(p, TRUE, toks.val, "none")
                ELSE /\ Finish(p, FALSE, None, upd.err)
                     /\ IF toks.ok
                        THEN Install(TokenState(None, buildHeaders(toks.val)), "login")
                        ELSE UNCHANGED <<tokenState, installedBy>>
      [] op[p] = "logout" ->
            /\ Install(updateTokens(None, now).val, "logout")
            /\ Finish(p, TRUE, None, "none")
      [] op[p] \in RecordOps ->
            LET done == CASE op[p] = "create" -> created(response)
                          [] op[p] \in {"update", "delete"} -> changed(response)
                          [] OTHER -> parsed(response)
            IN  /\ Finish(p, done.ok, done.val, done.err)
                /\ UNCHANGED <<tokenState, installedBy>>
      [] OTHER ->
            /\ Finish(p, TRUE, response, "none")
            /\ UNCHANGED <<tokenState, installedBy>>

\* Client.fetch returned response to the operation that called it.
fetchReturned(p, response) ==
    CASE op[p] = "login" ->
            LET toks == loginTokens(response)
                upd == IF toks.ok THEN updateTokens(toks.val, now) ELSE Raise(toks.err)
            IN  IF upd.ok
                THEN /\ Install(upd.val, "login")
                     /\ Finish(p, TRUE, toks.val, "none")
                ELSE /\ Finish(p, FALSE, None, upd.err)
                     /\ UNCHANGED <<tokenState, installedBy>>
      [] op[p] = "logout" ->
            /\ Install(updateTokens(None, now).val, "logout")
            /\ Finish(p, TRUE, None, "none")
      [] op[p] \in RecordOps ->
            LET done == CASE op[p] = "create" -> created(response)
                          [] op[p] \in {"update", "delete"} -> changed(response)
                          [] OTHER -> parsed(response)
            IN  /\ Finish(p, done.ok, done.val, done.err)
                /\ UNCHANGED <<tokenState, installedBy>>
      [] OTHER ->
            /\ Finish(p, TRUE, response, "none")
            /\ UNCHANGED <<tokenState, installedBy>>

\* Mutant: login goes to the server without the refresh check.
fetch_skipLogin(p) ==
    /\ pc[p] = "fetch"
    /\ LET refreshToken == shouldRefresh(tokenState, now) IN
       /\ frame' = [frame EXCEPT ![p].tokenState = tokenState,
                                 ![p].refreshToken = refreshToken]
       /\ pc' = [pc EXCEPT ![p] = IF refreshToken # NoneStr /\ op[p] # "login"
                                  THEN "refresh" ELSE "primary"]
    /\ seen' = [seen EXCEPT ![p] =
                   [tokenState |-> tokenState, now |-> now, installedBy |-> installedBy]]
    /\ UNCHANGED <<tokenState, installedBy, now, op, log, result>>

\* Client.fetch, lines 311-313: read the state, decide about the refresh.
fetch(p) ==
    /\ pc[p] = "fetch"
    /\ LET refreshToken == shouldRefresh(tokenState, now) IN
       /\ frame' = [frame EXCEPT ![p].tokenState = tokenState,
                                 ![p].refreshToken = refreshToken]
       /\ pc' = [pc EXCEPT ![p] = IF refreshToken # NoneStr THEN "refresh" ELSE "primary"]
    /\ seen' = [seen EXCEPT ![p] =
                   [tokenState |-> tokenState, now |-> now, installedBy |-> installedBy]]
    /\ UNCHANGED <<tokenState, installedBy, now, op, log, result>>

refreshUrl == Site \o "/" \o authApi \o "/refresh"
logoutUrl == Site \o "/" \o authApi \o "/logout"
loginUrl == Site \o "/" \o authApi \o "/login"

\* Mutant: the primary request does not wait for the refresh response.
RefreshSend_noWait(p) ==
    /\ pc[p] = "refresh"
    /\ log' = [log EXCEPT ![p] = Append(@,
                  Sent(ThinClient_fetch(authApi \o "/refresh", tokenState, "POST",
                                        [refresh_token |-> frame[p].refreshToken], None)))]
    /\ pc' = [pc EXCEPT ![p] = "primary"]
    /\ UNCHANGED <<tokenState, installedBy, now, op, frame, seen, result>>

\* Mutant: the refresh request goes out without the session's headers.
RefreshSend_bare(p) ==
    /\ pc[p] = "refresh"
    /\ log' = [log EXCEPT ![p] = Append(@,
                  Sent(ThinClient_fetch(authApi \o "/refresh", build(None).val, "POST",
                                        [refresh_token |-> frame[p].refreshToken], None)))]
    /\ pc' = [pc EXCEPT ![p] = "refresh_wait"]
    /\ UNCHANGED <<tokenState, installedBy, now, op, frame, seen, result>>

\* Mutant: a refresh request waits while another caller's refresh is in flight.
RefreshSend_singleFlight(p) ==
    /\ pc[p] = "refresh"
    /\ \A q \in Callers \ {p} : pc[q] # "refresh_wait"
    /\ log' = [log EXCEPT ![p] = Append(@,
                  Sent(ThinClient_fetch(authApi \o "/refresh", tokenState, "POST",
                                        [refresh_token |-> frame[p].refreshToken], None)))]
    /\ pc' = [pc EXCEPT ![p] = "refresh_wait"]
    /\ UNCHANGED <<tokenState, installedBy, now, op, frame, seen, result>>

\* _refreshTokensImpl, lines 286-293: the refresh request goes out.
RefreshSend(p) ==
    /\ pc[p] = "refresh"
    /\ log' = [log EXCEPT ![p] = Append(@,
                  Sent(ThinClient_fetch(authApi \o "/refresh", tokenState, "POST",
                                        [refresh_token |-> frame[p].refreshToken], None)))]
    /\ pc' = [pc EXCEPT ![p] = "refresh_wait"]
    /\ UNCHANGED <<tokenState, installedBy, now, op, frame, seen, result>>

\* Mutant: a failed refresh is dropped and the primary request goes out
\* with the state that was read.
RefreshReturns_goOn(p, replies) ==
    /\ pc[p] = "refresh_wait"
    /\ \E reply \in replies :
          LET built == IF reply.ok
                       THEN refreshTokensImpl(reply.val, frame[p].refreshToken)
                       ELSE reply
          IN  IF built.ok
              THEN /\ Install(built.val, "refresh")
                   /\ frame' = [frame EXCEPT ![p].tokenState = built.val]
                   /\ pc' = [pc EXCEPT ![p] = "primary"]
                   /\ log' = [log EXCEPT ![p] = Append(@, Got(refreshUrl, reply.val))]
                   /\ UNCHANGED <<now, op, seen, result>>
              ELSE /\ log' = [log EXCEPT ![p] = Append(@, Failed(refreshUrl, built.err))]
                   /\ pc' = [pc EXCEPT ![p] = "primary"]
                   /\ UNCHANGED <<tokenState, installedBy, now, op, frame, seen, result>>

\* _refreshTokensImpl, lines 295-302, and the assignment of line 314.
RefreshReturns(p, replies) ==
    /\ pc[p] = "refresh_wait"
    /\ \E reply \in replies :
          LET built == IF reply.ok
                       THEN refreshTokensImpl(reply.val, frame[p].refreshToken)
                       ELSE reply
          IN  IF built.ok
              THEN /\ Install(built.val, "refresh")
                   /\ frame' = [frame EXCEPT ![p].tokenState = built.val]
                   /\ pc' = [pc EXCEPT ![p] = "primary"]
                   /\ log' = [log EXCEPT ![p] = Append(@, Got(refreshUrl, reply.val))]
                   /\ UNCHANGED <<now, op, seen, result>>
              ELSE /\ log' = [log EXCEPT ![p] = Append(@, Failed(refreshUrl, built.err))]
                   /\ fetchRaised(p, built.err)

RefreshReturn(p) == RefreshReturns(p, RefreshReplies)

\* Mutant: the primary request takes its headers from _tokenState again.
PrimarySend_reread(p) ==
    /\ pc[p] = "primary"
    /\ log' = [log EXCEPT ![p] = Append(@,
                  Sent(ThinClient_fetch(frame[p].path, tokenState, frame[p].method,
                                        frame[p].data, frame[p].queryParams)))]
    /\ pc' = [pc EXCEPT ![p] = "primary_wait"]
    /\ UNCHANGED <<tokenState, installedBy, now, op, frame, seen, result>>

\* Client.fetch, line 316: the primary request goes out.
PrimarySend(p) ==
    /\ pc[p] = "primary"
    /\ log' = [log EXCEPT ![p] = Append(@,
                  Sent(ThinClient_fetch(frame[p].path, frame[p].tokenState, frame[p].method,
                                        frame[p].data, frame[p].queryParams)))]
    /\ pc' = [pc EXCEPT ![p] = "primary_wait"]
    /\ UNCHANGED <<tokenState, installedBy, now, op, frame, seen, result>>

\* Mutant: a primary request that raised is sent once more.
PrimaryReturns_retry(p, replies) ==
    /\ pc[p] = "primary_wait"
    /\ \E reply \in replies :
          IF reply.ok
          THEN /\ log' = [log EXCEPT ![p] = Append(@, Got(Site \o "/" \o frame[p].path, reply.val))]
               /\ fetchReturned(p, reply.val)
          ELSE /\ log' = [log EXCEPT ![p] = Append(@, Failed(Site \o "/" \o frame[p].path, reply.err))]
               /\ IF Len(log[p]) < 3
                  THEN /\ pc' = [pc EXCEPT ![p] = "primary"]
                       /\ UNCHANGED <<tokenState, installedBy, now, op, frame, seen, result>>
                  ELSE fetchRaised(p, reply.err)

\* Line 316 returns or raises, and the calling operation runs to its end.
PrimaryReturns(p, replies) ==
    /\ pc[p] = "primary_wait"
    /\ \E reply \in replies :
          IF reply.ok
          THEN /\ log' = [log EXCEPT ![p] = Append(@, Got(Site \o "/" \o frame[p].path, reply.val))]
               /\ fetchReturned(p, reply.val)
          ELSE /\ log' = [log EXCEPT ![p] = Append(@, Failed(Site \o "/" \o frame[p].path, reply.err))]
               /\ fetchRaised(p, reply.err)

PrimaryReturn(p) == PrimaryReturns(p, Replies(op[p]))

\* One caller uses the Client, one operation after the other.
Next ==
    \/ Tick
    \/ CallFetch(Main)
    \/ login(Main)
    \/ logout(Main)
    \/ fetch(Main)
    \/ RefreshSend(Main)
    \/ RefreshReturn(Main)
    \/ PrimarySend(Main)
    \/ PrimaryReturn(Main)

Spec == Init /\ [][Next]_vars

\* One caller uses the Client and its RecordApi, one operation after the
\* other.  The session starts with a stale, a fresh or no pair, with and
\* without a refresh token.
RecordsTokens ==
    {Tokens("T0", "R1", "C1"), Tokens("T1", "R1", "C1"), Tokens("T1", NoneStr, "C1")}
RecordsLoginReplies ==
    {Return(Response(200, [auth_token |-> "T1", refresh_token |-> "R1",
                           csrf_token |-> "C1"])),
     Return(Response(401, None))}
RecordsRefreshReplies ==
    {Return(Response(200, [auth_token |-> "T2", csrf_token |-> "C2"])),
     Return(Response(200, [auth_token |-> "T0", csrf_token |-> "C2"])),
     TransportError}

RecordsInit == Constructed(RecordsTokens)

RecordsNext ==
    \/ Tick
    \/ login(Main)
    \/ logout(Main)
    \/ list(Main)
    \/ read(Main)
    \/ create(Main)
    \/ update(Main)
    \/ delete(Main)
    \/ fetch(Main)
    \/ RefreshSend(Main)
    \/ RefreshReturns(Main, RecordsRefreshReplies)
    \/ PrimarySend(Main)
    \/ PrimaryReturns(Main, IF op[Main] = "login" THEN RecordsLoginReplies
                             ELSE Replies(op[Main]))

Records == RecordsInit /\ [][RecordsNext]_vars

\* Several callers share the Client and interleave at every read and write
\* of _tokenState, within one second of the clock.  The session starts with
\* an expiring pair or with none, and the server answers with one fresh
\* token or fails.
SharedTokens == {Tokens("T0", "R1", "C1")}
SharedLoginReplies ==
    {Return(Response(200, [auth_token |-> "T1", refresh_token |-> "R1",
                           csrf_token |-> "C1"])),
     TransportError}
SharedRefreshReplies ==
    {Return(Response(200, [auth_token |-> "T2", csrf_token |-> "C2"])),
     Return(Response(200, [auth_token |-> "T1", csrf_token |-> "C1"])),
     TransportError}

SharedInit == Constructed(SharedTokens)

SharedNext ==
    \/ \E p \in Callers : CallFetch(p)
    \/ \E p \in Callers : login(p)
    \/ \E p \in Callers : logout(p)
    \/ \E p \in Callers : fetch(p)
    \/ \E p \in Callers : RefreshSend(p)
    \/ \E p \in Callers : RefreshReturns(p, SharedRefreshReplies)
    \/ \E p \in Callers : PrimarySend(p)
    \/ \E p \in Callers :
          PrimaryReturns(p, IF op[p] = "login" THEN SharedLoginReplies ELSE PlainReplies)

Shared == SharedInit /\ [][SharedNext]_vars

--------------------------------------------------------------------------
(* Vocabulary of the properties.  C1 to C10 are stated for Spec, where one  *)
(* caller runs one operation after the other.                              *)

Idx(p) == 1..Len(log[p])
IsRefreshReq(e) == e.ev = "request" /\ e.req.url = refreshUrl
IsPrimaryReq(e) == e.ev = "request" /\ e.req.url # refreshUrl
IsRefreshEnd(e) == e.ev \in {"response", "error"} /\ e.url = refreshUrl
HasRead(p) == seen[p].installedBy # "nobody"
Expiring(ts, t) == ts.state # None /\ ts.state[2].exp - RefreshMargin < t
Triggered(p) == HasRead(p) /\ shouldRefresh(seen[p].tokenState, seen[p].now) # NoneStr
HeldRefresh(ts) == IF ts.state # None THEN ts.state[1].refresh ELSE NoneStr
OnlyContentType == "Content-Type" :> "application/json"
LastEvent(p) == log[p][Len(log[p])]
Answered(p) == Len(log[p]) > 0 /\ LastEvent(p).ev = "response"
WellFormedLogin(body) ==
    body # None /\ {"auth_token", "refresh_token", "csrf_token"} \subseteq DOMAIN body
Decodable(auth) ==
    auth \in DOMAIN JwtTable
    /\ {"sub", "iat", "exp", "email", "csrf_token"} \subseteq DOMAIN JwtTable[auth]
PairOf(body) == [auth |-> body.auth_token, refresh |-> body.refresh_token,
                 csrf |-> body.csrf_token]
StringPairs ==
    {[auth |-> a, refresh |-> r, csrf |-> c] :
        a \in AccessTokens, r \in {"R1", "R2", NoneStr}, c \in {"C1", "C2", NoneStr}}

--------------------------------------------------------------------------
\* C1: inside one Client.fetch, a triggered refresh request is issued and has
\* returned or failed before the primary request is issued; no primary
\* request exists while the refresh is pending or outstanding.
C1_RefreshBeforePrimary ==
    \A p \in Callers :
        /\ pc[p] \in {"refresh", "refresh_wait"} =>
              \A i \in Idx(p) : ~IsPrimaryReq(log[p][i])
        /\ \A i \in Idx(p) :
              IsPrimaryReq(log[p][i]) /\ Triggered(p) =>
                 \E j \in Idx(p), k \in Idx(p) :
                    /\ j < k /\ k < i
                    /\ IsRefreshReq(log[p][j])
                    /\ log[p][k].ev = "response" /\ log[p][k].url = refreshUrl
        /\ \A i \in Idx(p), j \in Idx(p) :
              IsPrimaryReq(log[p][i]) /\ IsRefreshReq(log[p][j]) =>
                 /\ j < i
                 /\ \E k \in Idx(p) : j < k /\ k < i /\ IsRefreshEnd(log[p][k])

C1_Witness ==
    \E p \in Callers : \E i \in Idx(p), j \in Idx(p) :
        Triggered(p) /\ IsPrimaryReq(log[p][i]) /\ IsRefreshReq(log[p][j])

\* C2 as claimed: a fetch that finds the claims expiring and no refresh token
\* held still attempts the refresh before any primary request.
C2_Original ==
    \A p \in Callers :
        (/\ HasRead(p)
         /\ Expiring(seen[p].tokenState, seen[p].now)
         /\ HeldRefresh(seen[p].tokenState) = NoneStr
         /\ \E i \in Idx(p) : IsPrimaryReq(log[p][i]))
        => \E j \in Idx(p) : IsRefreshReq(log[p][j])

\* C2 amended: a fetch that finds the claims expiring and no refresh token
\* held issues no refresh request; its primary request carries the headers
\* of the state it read, the expiring access token included.
C2_NoRefreshWithoutToken ==
    \A p \in Callers :
        (/\ HasRead(p)
         /\ Expiring(seen[p].tokenState, seen[p].now)
         /\ HeldRefresh(seen[p].tokenState) = NoneStr)
        => /\ pc[p] \notin {"refresh", "refresh_wait"}
           /\ \A i \in Idx(p) :
                 /\ ~IsRefreshReq(log[p][i])
                 /\ IsPrimaryReq(log[p][i]) =>
                       /\ log[p][i].req.headers = seen[p].tokenState.headers
                       /\ log[p][i].req.headers["Authorization"]
                             = "Bearer " \o seen[p].tokenState.state[1].auth

C2_Witness ==
    \E p \in Callers :
        /\ HasRead(p)
        /\ Expiring(seen[p].tokenState, seen[p].now)
        /\ HeldRefresh(seen[p].tokenState) = NoneStr
        /\ \E i \in Idx(p) : IsPrimaryReq(log[p][i])

\* C3: after a successful refresh in a fetch that read the pair {T1, R1, C1}
\* and got {auth_token: T2, csrf_token: C2}, the installed pair is
\* {T2, R1, C2}, R1 being the refresh token the request sent, and the primary
\* request of that fetch carries Bearer T2, Refresh-Token R1, CSRF-Token C2.
C3_RefreshKeepsRefreshToken ==
    \A p \in Callers : \A j \in Idx(p) :
        (/\ IsRefreshReq(log[p][j])
         /\ j < Len(log[p])
         /\ log[p][j + 1].ev = "response")
        => LET prior == seen[p].tokenState.state[1]
               body == log[p][j + 1].response.body
               pair == Tokens(body.auth_token, prior.refresh, body.csrf_token)
           IN  /\ log[p][j].req.json = [refresh_token |-> prior.refresh]
               /\ pc[p] \in {"primary", "primary_wait"} =>
                     /\ tokens(tokenState) = pair
                     /\ frame[p].tokenState = tokenState
               /\ \A i \in Idx(p) :
                     IsPrimaryReq(log[p][i]) =>
                        log[p][i].req.headers =
                           [h \in {"Content-Type", "Authorization", "Refresh-Token",
                                   "CSRF-Token"} |->
                              CASE h = "Content-Type" -> "application/json"
                                [] h = "Authorization" -> "Bearer " \o body.auth_token
                                [] h = "Refresh-Token" -> prior.refresh
                                [] h = "CSRF-Token" -> body.csrf_token]

C3_Witness ==
    \E p \in Callers : \E j \in Idx(p), i \in Idx(p) :
        /\ IsRefreshReq(log[p][j])
        /\ j < Len(log[p])
        /\ log[p][j + 1].ev = "response"
        /\ "refresh_token" \in DOMAIN log[p][j + 1].response.body
        /\ log[p][j + 1].response.body.auth_token # seen[p].tokenState.state[1].auth
        /\ IsPrimaryReq(log[p][i])

\* C4: when logout has returned, it returned normally and the session is
\* unauthenticated: tokens() and user() are None and only Content-Type is
\* left in the headers, whatever the network calls of the logout did.
C4_LogoutAlwaysClears ==
    \A p \in Callers :
        (pc[p] = "idle" /\ op[p] = "logout")
        => /\ result[p].op = "logout"
           /\ result[p].ok
           /\ tokens(tokenState) = None
           /\ user(tokenState) = Return(None)
           /\ tokenState.headers = OnlyContentType

C4_Witness ==
    \E p \in Callers :
        /\ pc[p] = "idle" /\ op[p] = "logout"
        /\ seen[p].tokenState.state # None
        /\ log[p][Len(log[p])].ev = "error"

\* C5 as claimed: every request logout sends to the logout endpoint is a
\* POST, with body {refresh_token: R} when R is held and no body otherwise.
C5_Original ==
    \A p \in Callers : \A i \in Idx(p) :
        (log[p][i].ev = "request" /\ log[p][i].req.url = logoutUrl)
        => LET held == HeldRefresh(seen[p].tokenState) IN
           /\ log[p][i].req.method = "POST"
           /\ log[p][i].req.json =
                 IF held # NoneStr THEN [refresh_token |-> held] ELSE None

\* C5 amended: the request logout sends to the logout endpoint is a POST
\* with body {refresh_token: R} when a refresh token R is held, and a GET
\* with no body when none is held.
C5_LogoutRequestShape ==
    \A p \in Callers : \A i \in Idx(p) :
        (log[p][i].ev = "request" /\ log[p][i].req.url = logoutUrl)
        => LET held == HeldRefresh(seen[p].tokenState) IN
           IF held # NoneStr
           THEN /\ log[p][i].req.method = "POST"
                /\ log[p][i].req.json = [refresh_token |-> held]
           ELSE /\ log[p][i].req.method = "GET"
                /\ log[p][i].req.json = None

C5_Witness ==
    \E p \in Callers : \E i \in Idx(p) :
        /\ log[p][i].ev = "request" /\ log[p][i].req.url = logoutUrl
        /\ HeldRefresh(seen[p].tokenState) = NoneStr
        /\ seen[p].tokenState.state # None

\* C6: a login answered with {auth_token: T1, refresh_token: R1, csrf_token:
\* C1}, T1 decodable, returns the pair {T1, R1, C1} and leaves it as tokens();
\* a fetch that reads the state a login installed and does not refresh sends
\* Authorization: Bearer T1.
C6_LoginInstallsPair ==
    \A p \in Callers :
        /\ (/\ pc[p] = "idle" /\ op[p] = "login" /\ Answered(p)
            /\ WellFormedLogin(LastEvent(p).response.body)
            /\ Decodable(LastEvent(p).response.body.auth_token))
           => /\ result[p].ok
              /\ result[p].val = PairOf(LastEvent(p).response.body)
              /\ tokens(tokenState) = result[p].val
              /\ installedBy = "login"
        /\ (pc[p] # "idle" /\ HasRead(p) /\ result[p].op = "login" /\ result[p].ok)
           => /\ seen[p].installedBy = "login"
              /\ tokens(seen[p].tokenState) = result[p].val
        /\ (/\ HasRead(p) /\ seen[p].installedBy = "login"
            /\ \A j \in Idx(p) : ~IsRefreshReq(log[p][j]))
           => \A i \in Idx(p) :
                 IsPrimaryReq(log[p][i]) =>
                    log[p][i].req.headers["Authorization"]
                       = "Bearer " \o tokens(seen[p].tokenState).auth

C6_Witness ==
    \E p \in Callers :
        /\ pc[p] # "idle" /\ op[p] = "fetch"
        /\ result[p].op = "login" /\ result[p].ok
        /\ HasRead(p)
        /\ ~Expiring(seen[p].tokenState, seen[p].now)
        /\ \E i \in Idx(p) :
              /\ IsPrimaryReq(log[p][i])
              /\ log[p][i].req.headers["Authorization"] = "Bearer " \o result[p].val.auth

\* C7: a fetch that reads a state without claims, or with exp - 60 >= now
\* (the boundary exp - 60 = now included), issues no refresh request, leaves
\* the current state as it is and sends exactly the headers it read; for a
\* session constructed without tokens that is Content-Type alone, and user()
\* is None.
C7_NoRefreshBeforeMargin ==
    \A p \in Callers :
        (HasRead(p) /\ (seen[p].tokenState.state = None
                         \/ seen[p].tokenState.state[2].exp - 60 >= seen[p].now))
        => /\ pc[p] \notin {"refresh", "refresh_wait"}
           /\ \A i \in Idx(p) :
                 /\ ~IsRefreshReq(log[p][i])
                 /\ IsPrimaryReq(log[p][i]) =>
                       log[p][i].req.headers = seen[p].tokenState.headers
           /\ (pc[p] \in {"primary", "primary_wait"} \/ (pc[p] = "idle" /\ op[p] = "fetch"))
                 => tokenState = seen[p].tokenState /\ installedBy = seen[p].installedBy
           /\ (seen[p].installedBy = "construct" /\ seen[p].tokenState.state = None)
                 => /\ user(seen[p].tokenState) = Return(None)
                    /\ \A i \in Idx(p) :
                          IsPrimaryReq(log[p][i]) =>
                             log[p][i].req.headers = OnlyContentType

C7_Witness ==
    \E p \in Callers :
        /\ HasRead(p)
        /\ seen[p].tokenState.state # None
        /\ seen[p].tokenState.state[2].exp - 60 = seen[p].now
        /\ HeldRefresh(seen[p].tokenState) # NoneStr
        /\ \E i \in Idx(p) : IsPrimaryReq(log[p][i])

\* C8: the headers of a built state are Content-Type: application/json,
\* Authorization: Bearer <auth> iff a pair is present, Refresh-Token iff the
\* pair has a refresh token, CSRF-Token iff it has a csrf token, and nothing
\* else; for every pair, for no pair, and for the state of the session.
HeaderContract(toks, h) ==
    /\ DOMAIN h \subseteq {"Content-Type", "Authorization", "Refresh-Token", "CSRF-Token"}
    /\ "Content-Type" \in DOMAIN h /\ h["Content-Type"] = "application/json"
    /\ "Authorization" \in DOMAIN h <=> toks # None
    /\ "Refresh-Token" \in DOMAIN h <=> (toks # None /\ toks.refresh # NoneStr)
    /\ "CSRF-Token" \in DOMAIN h <=> (toks # None /\ toks.csrf # NoneStr)
    /\ toks # None =>
          /\ h["Authorization"] = "Bearer " \o toks.auth
          /\ toks.refresh # NoneStr => h["Refresh-Token"] = toks.refresh
          /\ toks.csrf # NoneStr => h["CSRF-Token"] = toks.csrf

C8_HeadersFollowPair ==
    /\ \A toks \in StringPairs :
          /\ HeaderContract(toks, buildHeaders(toks))
          /\ build(toks).ok => HeaderContract(toks, build(toks).val.headers)
    /\ HeaderContract(None, build(None).val.headers)
    /\ HeaderContract(tokens(tokenState), tokenState.headers)
    /\ \A p \in Callers : \A i \in Idx(p) :
          IsPrimaryReq(log[p][i]) /\ (\A j \in Idx(p) : ~IsRefreshReq(log[p][j])) =>
             HeaderContract(tokens(seen[p].tokenState), log[p][i].req.headers)

C8_Witness ==
    \E p \in Callers : \E i \in Idx(p) :
        /\ IsPrimaryReq(log[p][i])
        /\ tokens(seen[p].tokenState) # None
        /\ tokens(seen[p].tokenState).refresh = NoneStr
        /\ tokens(seen[p].tokenState).csrf # NoneStr
        /\ DOMAIN log[p][i].req.headers = {"Content-Type", "Authorization", "CSRF-Token"}

\* C9 as claimed: a pair whose access token does not decode to claims is
\* built into a state without claims whose headers carry the tokens; login
\* and refresh with such a token do not fail.
C9_Claim ==
    \A p \in Callers :
        /\ (/\ pc[p] = "idle" /\ op[p] = "login" /\ Answered(p)
            /\ WellFormedLogin(LastEvent(p).response.body)
            /\ ~Decodable(LastEvent(p).response.body.auth_token))
           => /\ result[p].ok
              /\ tokenState.state = None
              /\ HeaderContract(PairOf(LastEvent(p).response.body), tokenState.headers)
        /\ \A i \in Idx(p) :
              log[p][i].ev = "error" => log[p][i].err # "DecodeError"

\* C10: a login whose pair is already expired (exp < now) still returns the
\* pair and installs it, and the operation that follows issues a refresh
\* request before its primary request.
C10_StaleTokenInstalled ==
    \A p \in Callers :
        /\ (/\ pc[p] = "idle" /\ op[p] = "login" /\ Answered(p)
            /\ WellFormedLogin(LastEvent(p).response.body)
            /\ Decodable(LastEvent(p).response.body.auth_token)
            /\ JwtTable[LastEvent(p).response.body.auth_token].exp < result[p].at)
           => /\ result[p].ok
              /\ result[p].val = PairOf(LastEvent(p).response.body)
              /\ tokens(tokenState) = result[p].val
        /\ (/\ pc[p] # "idle" /\ HasRead(p)
            /\ result[p].op = "login" /\ result[p].ok
            /\ JwtTable[result[p].val.auth].exp < result[p].at)
           => /\ pc[p] \in {"refresh", "refresh_wait"}
                 \/ (Len(log[p]) > 0 /\ IsRefreshReq(log[p][1]))
              /\ \A i \in Idx(p) :
                    IsPrimaryReq(log[p][i]) =>
                       \E j \in Idx(p) : j < i /\ IsRefreshReq(log[p][j])

C10_Witness ==
    \E p \in Callers :
        /\ pc[p] # "idle" /\ op[p] = "fetch"
        /\ result[p].op = "login" /\ result[p].ok
        /\ JwtTable[result[p].val.auth].exp < result[p].at
        /\ \E i \in Idx(p) : IsPrimaryReq(log[p][i])

--------------------------------------------------------------------------
(* C11, C12, C14 and C15 are stated for Records, C16 to C18 for Shared,  *)
(* C13, C19 and C20 for Spec.                                             *)

Changing == {"create", "update", "delete"}
HasEq(chars) == \E i \in 1..Len(chars) : chars[i] = "="
Malformed(args) ==
    args.filters # None /\ \E i \in 1..Len(args.filters[1]) : ~HasEq(args.filters[1][i])

\* C11 as claimed: create, update and delete succeed iff the status code is
\* exactly 200; with any other code, above or below, the operation fails.
C11_Original ==
    \A p \in Callers :
        (/\ pc[p] = "idle" /\ op[p] \in Changing /\ Answered(p)
         /\ LastEvent(p).response.status # 200)
        => ~result[p].ok

\* C11 amended: create, update and delete fail with a request error iff the
\* status code is greater than 200, and create then returns no RecordId; with
\* 200 or less (199 too) update and delete return normally and create
\* returns the RecordId of the body, or fails on a body it cannot parse.
C11_FailsAbove200 ==
    \A p \in Callers :
        (pc[p] = "idle" /\ op[p] \in Changing /\ Answered(p))
        => LET response == LastEvent(p).response IN
           /\ result[p].op = op[p]
           /\ response.status > 200 =>
                 ~result[p].ok /\ result[p].err = "Exception" /\ result[p].val = None
           /\ (response.status <= 200 /\ op[p] # "create") =>
                 result[p].ok /\ result[p].val = None
           /\ (response.status <= 200 /\ op[p] = "create") =>
                 IF response.body = None
                 THEN ~result[p].ok /\ result[p].err = "JSONDecodeError"
                 ELSE result[p].ok /\ result[p].val = [id |-> response.body.id]

C11_Witness ==
    \E p \in Callers :
        /\ pc[p] = "idle" /\ op[p] = "create" /\ Answered(p)
        /\ LastEvent(p).response.status = 199
        /\ result[p].ok /\ result[p].val = [id |-> "r1"]

\* C12: RecordApi.list with a filter that has no "=", wherever it stands in
\* the list, raises before any network activity: no request of any kind is
\* issued, Client.fetch is not entered and the state of the session stays as
\* it is, expiring or not; no list request carries parameters of such a call.
C12_RaisesBeforeFetch ==
    \A p \in Callers :
        /\ \A args \in ListCalls :
              LET params == listParams(args.order, args.filters, args.cursor, args.limit)
              IN  Malformed(args) <=> ~params.ok
        /\ (pc[p] = "idle" /\ op[p] = "list" /\ ~result[p].ok /\ result[p].err = "ValueError")
              => log[p] = <<>> /\ ~HasRead(p)
        /\ (op[p] = "list" /\ pc[p] # "idle")
              => \E args \in ListCalls :
                    /\ ~Malformed(args)
                    /\ frame[p].queryParams =
                          listParams(args.order, args.filters, args.cursor, args.limit).val

C12_MalformedLeavesState ==
    \A p \in Callers :
        (/\ pc[p] = "idle" /\ pc'[p] = "idle"
         /\ op'[p] = "list" /\ ~result'[p].ok /\ result'[p].err = "ValueError"
         /\ <<op[p], result[p], log[p]>> # <<op'[p], result'[p], log'[p]>>)
        => /\ tokenState' = tokenState
           /\ installedBy' = installedBy
           /\ log'[p] = <<>>

C12_FilterFailsFast == []C12_RaisesBeforeFetch /\ [][C12_MalformedLeavesState]_vars

C12_Witness ==
    \E p \in Callers :
        /\ pc[p] = "idle" /\ op[p] = "list"
        /\ ~result[p].ok /\ result[p].err = "ValueError"
        /\ log[p] = <<>>
        /\ Expiring(tokenState, now) /\ HeldRefresh(tokenState) # NoneStr

\* C13: the refresh request of a Client.fetch is a POST that carries the
\* headers of the state that was current before the refresh and, as its
\* body, that state's refresh token; the state stays the current one while
\* the refresh is pending, and the state installed by the refresh is the one
\* built from the parsed refresh response.
C13_RefreshUsesOldState ==
    LET p == Main
        old == seen[p].tokenState
    IN  /\ \A i \in Idx(p) :
              IsRefreshReq(log[p][i]) =>
                 /\ log[p][i].req.method = "POST"
                 /\ log[p][i].req.headers = old.headers
                 /\ log[p][i].req.json = [refresh_token |-> HeldRefresh(old)]
        /\ pc[p] \in {"refresh", "refresh_wait"} =>
              tokenState = old /\ installedBy = seen[p].installedBy
        /\ (pc[p] \in {"primary", "primary_wait"} /\ Triggered(p)) =>
              /\ Len(log[p]) >= 2
              /\ IsRefreshReq(log[p][1])
              /\ log[p][2].ev = "response" /\ log[p][2].url = refreshUrl
              /\ refreshTokensImpl(log[p][2].response, HeldRefresh(old)).ok
              /\ tokenState = refreshTokensImpl(log[p][2].response, HeldRefresh(old)).val
              /\ installedBy = "refresh"

C13_Witness ==
    /\ pc[Main] = "primary"
    /\ Triggered(Main)
    /\ "Authorization" \in DOMAIN log[Main][1].req.headers
    /\ tokenState # seen[Main].tokenState

Outgoing == {"login", "logout"} \cup RecordOps

\* C14: for each of login, logout, list, read, create, update and delete,
\* when the state read is expiring and holds a refresh token, the first
\* request is the refresh request, it is the only refresh request, and the
\* operation's own request follows the refresh response and carries the
\* headers of the pair built from that response.
C14_RefreshBeforeEveryCall ==
    LET p == Main
        old == seen[p].tokenState
    IN  (op[p] \in Outgoing /\ Triggered(p)) =>
           /\ pc[p] \notin {"primary", "primary_wait"} \/ Len(log[p]) >= 2
           /\ Len(log[p]) > 0 => IsRefreshReq(log[p][1])
           /\ \A i \in Idx(p) : IsRefreshReq(log[p][i]) => i = 1
           /\ \A i \in Idx(p) :
                 IsPrimaryReq(log[p][i]) =>
                    /\ i = 3
                    /\ log[p][2].ev = "response" /\ log[p][2].url = refreshUrl
                    /\ LET new == refreshTokensImpl(log[p][2].response, HeldRefresh(old))
                       IN  /\ new.ok
                           /\ log[p][i].req.headers = new.val.headers
                           /\ log[p][i].req.headers["Authorization"] =
                                 "Bearer " \o log[p][2].response.body.auth_token

C14_Witness ==
    /\ op[Main] = "create" /\ pc[Main] = "idle" /\ result[Main].ok
    /\ Triggered(Main)
    /\ Len(log[Main]) = 4
    /\ log[Main][3].req.headers # seen[Main].tokenState.headers

\* C15: one invocation of Client.fetch issues at most one refresh request
\* and at most one primary request, whatever the answers are: each request
\* is followed by its own answer and by no second request to the same url.
C15_NoRetry ==
    LET p == Main IN
    /\ Cardinality({i \in Idx(p) : IsRefreshReq(log[p][i])}) <= 1
    /\ Cardinality({i \in Idx(p) : IsPrimaryReq(log[p][i])}) <= 1
    /\ \A i \in Idx(p) :
          log[p][i].ev \in {"response", "error"} =>
             /\ i > 1
             /\ log[p][i - 1].ev = "request"
             /\ log[p][i - 1].req.url = log[p][i].url
    /\ \A i \in Idx(p) :
          (log[p][i].ev = "error" \/ (log[p][i].ev = "response" /\ log[p][i].url # refreshUrl))
             => i = Len(log[p])

\* A refresh that returned an already expired access token, then a primary
\* request that failed.
C15_Witness ==
    /\ pc[Main] = "idle" /\ ~result[Main].ok
    /\ Len(log[Main]) = 4
    /\ log[Main][2].ev = "response"
    /\ log[Main][4].ev = "error"
    /\ installedBy = "refresh"
    /\ Expiring(tokenState, seen[Main].now)

\* C16: under every interleaving of fetch, login and logout of several
\* callers, the primary request of a caller carries the headers of the state
\* that caller read at the start of its fetch or, when it refreshed, of the
\* state built from its own refresh response, whatever another caller wrote
\* to the cell in between.
C16_PrimaryUsesOwnState ==
    \A p \in Callers : \A i \in Idx(p) :
        IsPrimaryReq(log[p][i]) =>
           IF \E j \in Idx(p) : IsRefreshReq(log[p][j])
           THEN /\ i = 3
                /\ log[p][2].ev = "response" /\ log[p][2].url = refreshUrl
                /\ log[p][i].req.headers =
                      refreshTokensImpl(log[p][2].response,
                                        HeldRefresh(seen[p].tokenState)).val.headers
           ELSE /\ i = 1
                /\ log[p][i].req.headers = seen[p].tokenState.headers

\* A caller read a pair, another caller logged out, and then the first
\* caller's primary request went out with the old tokens.
C16_Witness ==
    \E p \in Callers : \E i \in Idx(p) :
        /\ IsPrimaryReq(log[p][i])
        /\ op[p] = "fetch"
        /\ log[p][i].cell.state = None
        /\ log[p][i].cell # seen[p].tokenState
        /\ "Authorization" \in DOMAIN log[p][i].req.headers

\* C17, state part: a caller that decided to refresh can always send its
\* refresh request, whatever the other callers are doing, and that request
\* carries the refresh token of the state the caller read.
C17_Unguarded ==
    \A p \in Callers :
        /\ pc[p] = "refresh" => ENABLED RefreshSend(p)
        /\ \A i \in Idx(p) :
              IsRefreshReq(log[p][i]) =>
                 log[p][i].req.json = [refresh_token |-> HeldRefresh(seen[p].tokenState)]

\* C17, step part: the refresh that returns writes the state built from its
\* own response into the cell, whatever the cell held.
C17_LastWrites ==
    \A p \in Callers :
        (pc[p] = "refresh_wait" /\ pc'[p] = "primary") =>
           /\ tokenState' = refreshTokensImpl(log'[p][Len(log'[p])].response,
                                              frame[p].refreshToken).val
           /\ tokenState' = frame'[p].tokenState
           /\ installedBy' = "refresh"

\* C17: the refresh path has no single-flight guard: concurrent fetches each
\* send their own refresh request with the refresh token of the state they
\* read, and the cell holds what the refresh that returned last installed.
C17_NoSingleFlight == []C17_Unguarded /\ [][C17_LastWrites]_vars

\* Both callers read the same expiring state, both refresh requests went out
\* with the same refresh token before either answer was installed, the
\* answers differ, and the cell holds the pair of the second caller only.
C17_Witness ==
    /\ op["c1"] = "fetch" /\ op["c2"] = "fetch"
    /\ pc["c1"] = "primary" /\ pc["c2"] = "primary"
    /\ seen["c1"].tokenState = seen["c2"].tokenState
    /\ Expiring(seen["c1"].tokenState, seen["c1"].now)
    /\ log["c1"][1].req.json = log["c2"][1].req.json
    /\ log["c1"][1].cell = seen["c1"].tokenState
    /\ log["c2"][1].cell = seen["c1"].tokenState
    /\ tokenState = frame["c2"].tokenState
    /\ tokenState # frame["c1"].tokenState

\* C18: in every reachable state, under every interleaving of login, logout
\* and fetch, the current state is what one build call returns for its own
\* pair: its headers are the headers of that pair, Authorization is among
\* them iff tokens() is not None, and the claims are present, and are the
\* claims of the pair's access token, iff tokens() is not None.
C18_SingleBuild ==
    LET toks == tokens(tokenState) IN
    /\ build(toks).ok
    /\ tokenState = build(toks).val
    /\ tokenState.headers = buildHeaders(toks)
    /\ ("Authorization" \in DOMAIN tokenState.headers) <=> (toks # None)
    /\ (toks # None) <=> (tokenState.state # None /\ Len(tokenState.state) = 2)
    /\ toks # None =>
          /\ tokenState.headers["Authorization"] = "Bearer " \o toks.auth
          /\ tokenState.state[2] = JwtToken_fromJson(jwt_decode(toks.auth).val).val

\* The cell was written by a refresh and then by a logout, while another
\* caller still holds the state the refresh installed.
C18_Witness ==
    \E p \in Callers, q \in Callers :
        /\ p # q
        /\ installedBy = "logout" /\ tokens(tokenState) = None
        /\ result[q].op = "logout" /\ pc[q] = "idle"
        /\ pc[p] = "primary_wait"
        /\ Len(log[p]) = 3 /\ IsRefreshReq(log[p][1])
        /\ log[p][3].cell = frame[p].tokenState
        /\ "Authorization" \in DOMAIN frame[p].tokenState.headers

RefreshFailures == {"TransportError", "JSONDecodeError", "KeyError", "DecodeError"}

\* C19: when the refresh of a Client.fetch fails (the call raises, the body
\* lacks auth_token or csrf_token, or the new access token does not decode),
\* the invocation ends there: the error reaches the caller of fetch, no
\* primary request is issued, and fetch leaves the state it read in place.
\* logout, as the caller, swallows the error and then clears the state.
C19_FailedRefreshPropagates ==
    LET p == Main IN
    \A i \in Idx(p) :
        (log[p][i].ev = "error" /\ log[p][i].url = refreshUrl) =>
           /\ log[p][i].err \in RefreshFailures
           /\ i = 2 /\ Len(log[p]) = 2
           /\ \A j \in Idx(p) : ~IsPrimaryReq(log[p][j])
           /\ pc[p] = "idle"
           /\ result[p].op = op[p]
           /\ IF op[p] = "logout"
              THEN /\ result[p].ok
                   /\ installedBy = "logout"
                   /\ tokens(tokenState) = None
              ELSE /\ ~result[p].ok
                   /\ result[p].err = log[p][i].err
                   /\ tokenState = seen[p].tokenState
                   /\ installedBy = seen[p].installedBy

\* The refresh of a fetch returned an access token that does not decode.
C19_Witness ==
    /\ op[Main] = "fetch"
    /\ Len(log[Main]) = 2
    /\ log[Main][2] = Failed(refreshUrl, "DecodeError")
    /\ result[Main].err = "DecodeError"
    /\ tokens(tokenState) # None

LoginFailures == {"TransportError", "JSONDecodeError", "KeyError", "DecodeError"}

\* C20: a login that fails (the call raises, the body is no JSON or lacks
\* auth_token, refresh_token or csrf_token, or the access token does not
\* decode) surfaces the failure and installs nothing: the state is the one
\* its fetch read, or the one its refresh installed before the login request;
\* on an unauthenticated session tokens() is None afterwards and the headers
\* are the ones without tokens.
C20_FailedLoginInstallsNothing ==
    LET p == Main IN
    (pc[p] = "idle" /\ op[p] = "login" /\ result[p].op = "login" /\ ~result[p].ok) =>
       /\ result[p].err \in LoginFailures
       /\ IF LastEvent(p).ev = "error"
          THEN result[p].err = LastEvent(p).err
          ELSE LET toks == loginTokens(LastEvent(p).response) IN
               IF ~toks.ok
               THEN result[p].err = toks.err
               ELSE ~build(toks.val).ok /\ result[p].err = build(toks.val).err
       /\ installedBy # "login" \/ seen[p].installedBy = "login"
       /\ IF Len(log[p]) >= 2 /\ log[p][2].ev = "response" /\ log[p][2].url = refreshUrl
          THEN /\ installedBy = "refresh"
               /\ tokenState = refreshTokensImpl(log[p][2].response,
                                                 HeldRefresh(seen[p].tokenState)).val
          ELSE /\ tokenState = seen[p].tokenState
               /\ installedBy = seen[p].installedBy
       /\ tokens(seen[p].tokenState) = None =>
             /\ tokens(tokenState) = None
             /\ tokenState.headers = OnlyContentType

\* On an unauthenticated session the login response carried a full pair
\* whose access token does not decode.
C20_Witness ==
    /\ pc[Main] = "idle" /\ op[Main] = "login" /\ ~result[Main].ok
    /\ result[Main].err = "DecodeError"
    /\ tokens(seen[Main].tokenState) = None
    /\ LastEvent(Main).ev = "response"
    /\ WellFormedLogin(LastEvent(Main).response.body)
    /\ tokens(tokenState) = None

====
